---- MODULE Spec2Model ----
(***************************************************************************)
(* Model of the training clients of pokemonAutoChess:                      *)
(*   - PokemonAutoChessEnv  (src/training/pac_env.py), the single-agent    *)
(*     Gymnasium client with retry/backoff on reset and the self-healing   *)
(*     server restart;                                                     *)
(*   - SelfPlayVecEnv (src/training/selfplay_vec_env.py), the vectorized   *)
(*     multi-agent client with the fused auto-reset.                       *)
(* The simulator and the network are the environment: every HTTP exchange  *)
(* ends in one of the outcomes of ExchangeKinds, chosen freely.            *)
(* Spec is the single-agent client, VecSpec the vectorized one.            *)
(*   - launch_servers (src/training/launch_servers.py), which spawns the   *)
(*     simulators of a parallel run and hands back their cleanup:          *)
(*     LaunchSpec.                                                         *)
(***************************************************************************)
EXTENDS Integers, Sequences, FiniteSets, TLC

VARIABLES
    client,                \* which client the program constructs: "env", "vec"
    \* ---- PokemonAutoChessEnv ----
    server_cmd,            \* self._server_cmd: "None" or "cmd"
    server_proc,           \* self._server_proc: 0 (None) or a pid
    alive,                 \* pids spawned by this client that have not exited
    session,               \* self.session: "open" or "closed"
    current_action_mask,   \* self._current_action_mask
    last_obs,              \* self._last_obs
    pc,                    \* position inside the running call ("idle": none)
    attempt,               \* reset(): loop variable of the retry loop
    polls,                 \* _restart_server(): iterations of the health loop
    log,                   \* side effects of the current (or last) call, in order
    ret,                   \* outcome of the last completed call
    seenGood,              \* history: some reset/step has returned a response
    goodObs,               \* history: observation that call returned
    goodMask,              \* history: mask that call's response carried
    wellFormed,            \* history: every accepted response had the sizes
    \* ---- SelfPlayVecEnv ----
    vec_action_masks,      \* self._action_masks  (N rows)
    vec_last_obs,          \* self._last_obs      (N rows)
    pending_actions,       \* self._pending_actions: <<>> (None) or N actions
    vpc,                   \* position inside the running call
    vattempt,              \* reset(): loop variable of the retry loop
    vcaller,               \* who called reset(): "reset", "step_fail", "step_done"
    vlocal,                \* step_wait's batch (its locals), until the next call
    vlog,                  \* side effects of the current (or last) call
    vret,                  \* outcome of the last completed call
    vreset,                \* the /reset response the current call accepted
    \* ---- launch_servers ----
    lpc,                   \* where launch_servers is: "idle", "spawn", "wait",
                           \* "returned", "raised"
    servers,               \* the list servers, as the ports in spawn order
    running,               \* ports whose spawned process has not exited
    waiting,               \* index in servers of the server being waited for
    lpolls,                \* health polls spent on that server (the clock)
    llog,                  \* what the call and its cleanup did, in order
    lret                   \* how launch_servers ended

envVars == <<client, server_cmd, server_proc, alive, session, current_action_mask,
             last_obs, pc, attempt, polls, log, ret, seenGood, goodObs, goodMask,
             wellFormed>>
launchVars == <<lpc, servers, running, waiting, lpolls, llog, lret>>
vecVars == <<vec_action_masks, vec_last_obs, pending_actions, vpc, vattempt,
             vcaller, vlocal, vlog, vret, vreset>>
vars == <<envVars, vecVars, launchVars>>

----------------------------------------------------------------------------
(* Bounds of the model *)

ObsSize == 2          \* obs_size reported by /observation-space
NumActions == 2       \* num_actions reported by /action-space
NumAgents == 2        \* N reported by /num-agents
MaxHealthPolls == 2   \* health-loop iterations that fit in the deadline
MaxPids == 2          \* distinct process ids the OS hands out

(* Program constants *)

RESET_MAX_RETRIES == 3
RESET_BACKOFF_BASE == 2
PORT_RELEASE_PAUSE == 1
HEALTH_POLL_INTERVAL == 1

----------------------------------------------------------------------------
(* Data *)

RECURSIVE Pow(_, _)
Pow(b, e) == IF e = 0 THEN 1 ELSE b * Pow(b, e - 1)

Seats == 1..NumAgents
Actions == 0..(NumActions - 1)
Pids == 1..MaxPids

Const(n, v) == [i \in 1..n |-> v]

\* np.zeros(obs_size) and np.ones(num_actions)
ZeroObs == Const(ObsSize, 0)
AllLegal == Const(NumActions, 1)
\* the mask of an eliminated seat: only the first action is legal
PassOnly == [i \in 1..NumActions |-> IF i = 1 THEN 1 ELSE 0]

\* observations a response may carry: two of the right length, one too long
GoodObs == {Const(ObsSize, 0), Const(ObsSize, 1)}
LongObs == Const(ObsSize + 1, 1)
RespObs == GoodObs \cup {LongObs}

\* info.actionMask of a response: absent, or a vector (one of them too long)
NoMask == [has |-> FALSE, m |-> <<>>]
GoodMasks == {[has |-> TRUE, m |-> PassOnly], [has |-> TRUE, m |-> AllLegal]}
LongMask == [has |-> TRUE, m |-> Const(NumActions + 1, 1)]
RespMasks == {NoMask} \cup GoodMasks \cup {LongMask}

\* How an HTTP exchange ends.  "refused", "timeout": requests raises;
\* "notjson": the body is not JSON, .json() raises; "missing": the body is
\* JSON but lacks a required field (or has the wrong shape); "ok": a payload
\* with all required fields.
TransportFailures == {"refused", "timeout", "notjson"}
ExchangeKinds == {"ok", "missing"} \cup TransportFailures

Ev(e, n, r) == [e |-> e, n |-> n, r |-> r]

NoRet == [op |-> "none", kind |-> "none", exc |-> "none", obs |-> <<>>,
          reward |-> 0, terminated |-> FALSE, truncated |-> FALSE,
          mask |-> <<>>, timeout |-> FALSE]

----------------------------------------------------------------------------
(* PokemonAutoChessEnv *)

\* what the simulator may answer to POST /reset
ResetOutcomes ==
    {[kind |-> "ok", obs |-> o, mask |-> m] : o \in RespObs, m \in RespMasks}
    \cup {[kind |-> k, obs |-> <<>>, mask |-> NoMask] :
             k \in ExchangeKinds \ {"ok"}}

\* what the simulator may answer to POST /step
StepOutcomes ==
    {[kind |-> "ok", obs |-> o, mask |-> m, reward |-> w, done |-> d] :
        o \in RespObs, m \in RespMasks, w \in {0, 1}, d \in BOOLEAN}
    \cup {[kind |-> k, obs |-> <<>>, mask |-> NoMask, reward |-> 0,
           done |-> FALSE] : k \in ExchangeKinds \ {"ok"}}

\* what GET /health may end in: "ok" is status 200 with {"status": "ok"};
\* "notready" is another status code or another status value; "refused" and
\* "timeout" raise the two exceptions the loop catches; "notjson" is status
\* 200 with a body .json() cannot parse
HealthOutcomes == {"ok", "notready", "refused", "timeout", "notjson"}

\* mutant: a response without actionMask leaves the previous mask in place
MaskOfKeepsPrevious(info) ==
    IF info.has THEN info.m ELSE current_action_mask

\* info.get("actionMask", np.ones(self.num_actions))
MaskOf(info) == IF info.has THEN info.m ELSE AllLegal

\* mutant: linear backoff, 2s, 4s, 6s
BackoffLinear(a) == RESET_BACKOFF_BASE * (a + 1)

\* backoff = RESET_BACKOFF_BASE ** (attempt + 1)
Backoff(a) == Pow(RESET_BACKOFF_BASE, a + 1)

Raise(op, exc) == [NoRet EXCEPT !.op = op, !.kind = "raise", !.exc = exc]

\* the fatal error at the end of reset()
Unresponsive == Raise("reset", "ConnectionError")

\* the value a reset returns from a response
ResetResult(r) ==
    [NoRet EXCEPT !.op = "reset", !.kind = "return", !.obs = r.obs,
                  !.mask = MaskOf(r.mask)]

\* mutant: the made-up transition carries a fresh zero observation
SyntheticTerminalZeroObs ==
    [NoRet EXCEPT !.op = "step", !.kind = "return", !.obs = ZeroObs,
                  !.reward = 0, !.terminated = TRUE, !.truncated = TRUE,
                  !.mask = current_action_mask, !.timeout = TRUE]

\* the terminal transition step() makes up when the exchange raised
SyntheticTerminal ==
    [NoRet EXCEPT !.op = "step", !.kind = "return", !.obs = last_obs,
                  !.reward = 0, !.terminated = TRUE, !.truncated = TRUE,
                  !.mask = current_action_mask, !.timeout = TRUE]

\* variant: a done response is reported as truncated
StepResultTruncatedOnDone(r) ==
    [NoRet EXCEPT !.op = "step", !.kind = "return", !.obs = r.obs,
                  !.reward = r.reward, !.terminated = r.done,
                  !.truncated = r.done, !.mask = MaskOf(r.mask)]

\* the transition step() builds from a response
StepResult(r) ==
    [NoRet EXCEPT !.op = "step", !.kind = "return", !.obs = r.obs,
                  !.reward = r.reward, !.terminated = r.done,
                  !.truncated = FALSE, !.mask = MaskOf(r.mask)]

Running(op) == [NoRet EXCEPT !.op = op, !.kind = "running"]

restartVars == <<server_proc, alive, session, polls>>
cacheVars == <<current_action_mask, last_obs, seenGood, goodObs, goodMask,
               wellFormed>>

\* the assignments of a successful reset or step: lines 241-248, 319-324
Cache(r) ==
    /\ current_action_mask' = MaskOf(r.mask)
    /\ last_obs' = r.obs
    /\ seenGood' = TRUE
    /\ goodObs' = r.obs
    /\ goodMask' = (IF r.mask.has THEN r.mask.m ELSE Const(NumActions, 1))
    /\ wellFormed' = (wellFormed /\ Len(r.obs) = ObsSize
                                 /\ (r.mask.has => Len(r.mask.m) = NumActions))

\* the exception a failed exchange of __init__ ends in: only
\* requests.exceptions.ConnectionError is caught and re-raised as the
\* builtin ConnectionError; a payload without "n" fails at the lookup
ConstructExc(k) ==
    CASE k = "refused" -> "ConnectionError"
      [] k = "timeout" -> "requests.Timeout"
      [] k = "notjson" -> "JSONDecodeError"
      [] k = "missing" -> "KeyError"
      [] OTHER -> "none"

\* the queries __init__ issues when /action-space answers k1 and
\* /observation-space answers k2: an exception in the first skips the second
ConstructLog(k1, k2) ==
    <<Ev("GET /action-space", 1, k1)>>
    \o (IF k1 \in TransportFailures THEN <<>>
        ELSE <<Ev("GET /observation-space", 1, k2)>>)

\* the exchange that decides how __init__ ends
ConstructFirstBad(k1, k2) ==
    IF k1 \in TransportFailures THEN k1
    ELSE IF k2 \in TransportFailures THEN k2
    ELSE IF k1 = "missing" THEN k1 ELSE k2

\* mutant: __init__ that sizes neither cache
ConstructUnsizedCaches ==
    /\ pc = "new"
    /\ log' = ConstructLog("ok", "ok")
    /\ current_action_mask' = <<>>
    /\ last_obs' = <<>>
    /\ ret' = [NoRet EXCEPT !.op = "__init__", !.kind = "return"]
    /\ pc' = "idle"
    /\ UNCHANGED <<client, server_cmd, restartVars, attempt, seenGood, goodObs,
                   goodMask, wellFormed, vecVars, launchVars>>

\* __init__ with both space queries answered: the client exists
Construct ==
    /\ pc = "new"
    /\ log' = ConstructLog("ok", "ok")
    /\ current_action_mask' = Const(NumActions, 1)
    /\ last_obs' = Const(ObsSize, 0)
    /\ ret' = [NoRet EXCEPT !.op = "__init__", !.kind = "return"]
    /\ pc' = "idle"
    /\ UNCHANGED <<client, server_cmd, restartVars, attempt, seenGood, goodObs,
                   goodMask, wellFormed, vecVars, launchVars>>

\* __init__ with a query that fails or a payload without "n": it raises and
\* no client exists; the caller may construct again
ConstructFails ==
    /\ pc = "new"
    /\ \E k1 \in ExchangeKinds, k2 \in ExchangeKinds :
          /\ ConstructFirstBad(k1, k2) # "ok"
          /\ log' = ConstructLog(k1, k2)
          /\ ret' = Raise("__init__", ConstructExc(ConstructFirstBad(k1, k2)))
    /\ UNCHANGED <<client, server_cmd, restartVars, cacheVars, attempt, pc,
                   vecVars, launchVars>>

\* mutant: action_masks() that hands the mask out and forgets it
ActionMasksConsumes ==
    /\ pc = "idle"
    /\ log' = <<>>
    /\ ret' = [NoRet EXCEPT !.op = "action_masks", !.kind = "return",
                            !.mask = current_action_mask]
    /\ current_action_mask' = Const(NumActions, 1)
    /\ UNCHANGED <<client, server_cmd, restartVars, last_obs, seenGood, goodObs,
                   goodMask, wellFormed, attempt, pc, vecVars, launchVars>>

\* action_masks(): return self._current_action_mask
ActionMasks ==
    /\ pc = "idle"
    /\ log' = <<>>
    /\ ret' = [NoRet EXCEPT !.op = "action_masks", !.kind = "return",
                            !.mask = current_action_mask]
    /\ UNCHANGED <<client, server_cmd, restartVars, cacheVars, attempt, pc,
                   vecVars, launchVars>>

\* reset() is entered
ResetCall ==
    /\ pc = "idle"
    /\ pc' = "reset_try"
    /\ attempt' = 0
    /\ log' = <<>>
    /\ ret' = Running("reset")
    /\ UNCHANGED <<client, server_cmd, restartVars, cacheVars, vecVars, launchVars>>

\* an attempt of the retry loop whose response is accepted
ResetAttemptOk ==
    /\ pc = "reset_try"
    /\ \E r \in ResetOutcomes :
          /\ r.kind = "ok"
          /\ Cache(r)
          /\ log' = Append(log, Ev("POST /reset", attempt + 1, r.kind))
          /\ ret' = ResetResult(r)
    /\ pc' = "idle"
    /\ UNCHANGED <<client, server_cmd, restartVars, attempt, vecVars, launchVars>>

\* mutant: the loop gives up after its first failed attempt
AfterFailedAttemptGiveUp(a) == "restart"

\* variant: the retry loop makes a fourth attempt before the restart
AfterFailedAttemptFourTries(a) ==
    IF a + 1 < RESET_MAX_RETRIES + 1 THEN "reset_try" ELSE "restart"

\* where the retry loop goes after a failed attempt
AfterFailedAttempt(a) ==
    IF a + 1 < RESET_MAX_RETRIES THEN "reset_try" ELSE "restart"

\* an attempt of the retry loop that raises: except Exception, back off
ResetAttemptFail ==
    /\ pc = "reset_try"
    /\ \E r \in ResetOutcomes :
          /\ r.kind # "ok"
          /\ log' = log \o <<Ev("POST /reset", attempt + 1, "fail"),
                             Ev("sleep", Backoff(attempt), "")>>
    /\ attempt' = attempt + 1
    /\ pc' = AfterFailedAttempt(attempt)
    /\ UNCHANGED <<client, server_cmd, restartVars, cacheVars, ret, vecVars, launchVars>>

\* _restart_server() without server_cmd returns False; reset() raises
RestartNoCmd ==
    /\ pc = "restart"
    /\ server_cmd = "None"
    /\ ret' = Unresponsive
    /\ pc' = "idle"
    /\ UNCHANGED <<client, server_cmd, restartVars, cacheVars, attempt, log, vecVars, launchVars>>

\* mutant: _restart_server() without its server_cmd guard
RestartKillWithoutGuard ==
    /\ pc = "restart"
    /\ log' = log
              \o (IF server_proc # 0
                  THEN <<Ev("_kill_proc", server_proc, "")>> ELSE <<>>)
              \o <<Ev("_kill_port", 0, ""),
                   Ev("sleep", PORT_RELEASE_PAUSE, "")>>
    /\ alive' = alive \ {server_proc}
    /\ server_proc' = 0
    /\ pc' = "spawn"
    /\ UNCHANGED <<client, server_cmd, session, polls, cacheVars, attempt, ret, vecVars, launchVars>>

\* mutant: _restart_server() that kills by port only when it tracks no handle
RestartKillPortOnlyWithoutHandle ==
    /\ pc = "restart"
    /\ server_cmd # "None"
    /\ log' = log
              \o (IF server_proc # 0
                  THEN <<Ev("_kill_proc", server_proc, "")>>
                  ELSE <<Ev("_kill_port", 0, "")>>)
              \o <<Ev("sleep", PORT_RELEASE_PAUSE, "")>>
    /\ alive' = alive \ {server_proc}
    /\ server_proc' = 0
    /\ pc' = "spawn"
    /\ UNCHANGED <<client, server_cmd, session, polls, cacheVars, attempt, ret, vecVars, launchVars>>

\* _restart_server(): kill the tracked process, kill by port, pause
RestartKill ==
    /\ pc = "restart"
    /\ server_cmd # "None"
    /\ log' = log
              \o (IF server_proc # 0
                  THEN <<Ev("_kill_proc", server_proc, "")>> ELSE <<>>)
              \o <<Ev("_kill_port", 0, ""),
                   Ev("sleep", PORT_RELEASE_PAUSE, "")>>
    /\ alive' = alive \ {server_proc}
    /\ server_proc' = 0
    /\ pc' = "spawn"
    /\ UNCHANGED <<client, server_cmd, session, polls, cacheVars, attempt, ret, vecVars, launchVars>>

\* subprocess.Popen starts the replacement
RestartSpawn ==
    /\ pc = "spawn"
    /\ \E p \in Pids \ alive :
          /\ server_proc' = p
          /\ alive' = alive \cup {p}
          /\ log' = Append(log, Ev("Popen", p, "ok"))
    /\ polls' = 0
    /\ pc' = "health"
    /\ UNCHANGED <<client, server_cmd, session, cacheVars, attempt, ret, vecVars, launchVars>>

\* subprocess.Popen raises (no such cwd, fork fails): nothing catches it
RestartSpawnRaises ==
    /\ pc = "spawn"
    /\ log' = Append(log, Ev("Popen", 0, "raise"))
    /\ ret' = Raise("reset", "OSError")
    /\ pc' = "idle"
    /\ UNCHANGED <<client, server_cmd, restartVars, cacheVars, attempt, vecVars, launchVars>>

\* health loop: the spawned process has exited
HealthCrashed ==
    /\ pc = "health"
    /\ polls < MaxHealthPolls
    /\ log' = Append(log, Ev("poll", server_proc, "exited"))
    /\ alive' = alive \ {server_proc}
    /\ server_proc' = 0
    /\ ret' = Unresponsive
    /\ pc' = "idle"
    /\ UNCHANGED <<client, server_cmd, session, polls, cacheVars, attempt, vecVars, launchVars>>

\* health loop: the probe answers 200 {"status": "ok"}; new session
HealthProbeOk ==
    /\ pc = "health"
    /\ polls < MaxHealthPolls
    /\ server_proc \in alive
    /\ log' = log \o <<Ev("GET /health", polls + 1, "ok"),
                       Ev("session.close", 0, ""),
                       Ev("Session", 0, "")>>
    /\ session' = "open"
    /\ pc' = "reset_post"
    /\ UNCHANGED <<client, server_cmd, server_proc, alive, polls, cacheVars, attempt,
                   ret, vecVars, launchVars>>

\* health loop: the probe is refused, times out or is not ok yet; sleep
HealthProbeNotReady ==
    /\ pc = "health"
    /\ polls < MaxHealthPolls
    /\ server_proc \in alive
    /\ \E h \in HealthOutcomes \ {"ok", "notjson"} :
          log' = log \o <<Ev("GET /health", polls + 1, "fail"),
                          Ev("sleep", HEALTH_POLL_INTERVAL, "")>>
    /\ polls' = polls + 1
    /\ UNCHANGED <<client, server_cmd, server_proc, alive, session, cacheVars, attempt,
                   pc, ret, vecVars, launchVars>>

\* health loop: status 200 with a body that is not JSON: resp.json() raises
\* an exception that is neither ConnectionError nor Timeout
HealthProbeRaises ==
    /\ pc = "health"
    /\ polls < MaxHealthPolls
    /\ server_proc \in alive
    /\ log' = Append(log, Ev("GET /health", polls + 1, "notjson"))
    /\ ret' = Raise("reset", "JSONDecodeError")
    /\ pc' = "idle"
    /\ UNCHANGED <<client, server_cmd, restartVars, cacheVars, attempt, vecVars, launchVars>>

\* mutant: the deadline branch without `self._server_proc = None`
HealthDeadlineKeepsHandle ==
    /\ pc = "health"
    /\ polls >= 1
    /\ log' = Append(log, Ev("_kill_proc", server_proc, "deadline"))
    /\ alive' = alive \ {server_proc}
    /\ ret' = Unresponsive
    /\ pc' = "idle"
    /\ UNCHANGED <<client, server_cmd, server_proc, session, polls, cacheVars,
                   attempt, vecVars, launchVars>>

\* mutant: the health loop never notices that the deadline has elapsed
HealthDeadlineNeverElapses ==
    /\ pc = "health"
    /\ polls > MaxHealthPolls
    /\ log' = Append(log, Ev("_kill_proc", server_proc, "deadline"))
    /\ alive' = alive \ {server_proc}
    /\ server_proc' = 0
    /\ ret' = Unresponsive
    /\ pc' = "idle"
    /\ UNCHANGED <<client, server_cmd, session, polls, cacheVars, attempt, vecVars, launchVars>>

\* mutant: the deadline branch drops the handle without killing the process
HealthDeadlineNoKill ==
    /\ pc = "health"
    /\ polls >= 1
    /\ log' = log
    /\ server_proc' = 0
    /\ ret' = Unresponsive
    /\ pc' = "idle"
    /\ UNCHANGED <<client, server_cmd, alive, session, polls, cacheVars,
                   attempt, vecVars, launchVars>>

\* health loop: the deadline has elapsed; kill the replacement
HealthDeadline ==
    /\ pc = "health"
    /\ polls >= 1
    /\ log' = Append(log, Ev("_kill_proc", server_proc, "deadline"))
    /\ alive' = alive \ {server_proc}
    /\ server_proc' = 0
    /\ ret' = Unresponsive
    /\ pc' = "idle"
    /\ UNCHANGED <<client, server_cmd, session, polls, cacheVars, attempt, vecVars, launchVars>>

\* the one reset after a healthy restart, accepted
ResetPostOk ==
    /\ pc = "reset_post"
    /\ \E r \in ResetOutcomes :
          /\ r.kind = "ok"
          /\ Cache(r)
          /\ log' = Append(log, Ev("POST /reset", attempt + 1, r.kind))
          /\ ret' = ResetResult(r)
    /\ pc' = "idle"
    /\ UNCHANGED <<client, server_cmd, restartVars, attempt, vecVars, launchVars>>

\* variant: the failed reset after a restart falls back to the caches of a
\* freshly constructed client
ResetPostFailFreshCaches ==
    /\ pc = "reset_post"
    /\ \E r \in ResetOutcomes :
          /\ r.kind # "ok"
          /\ log' = Append(log, Ev("POST /reset", attempt + 1, "fail"))
    /\ current_action_mask' = AllLegal
    /\ last_obs' = ZeroObs
    /\ ret' = Unresponsive
    /\ pc' = "idle"
    /\ UNCHANGED <<client, server_cmd, restartVars, seenGood, goodObs, goodMask,
                   wellFormed, attempt, vecVars, launchVars>>

\* the one reset after a healthy restart raises: reset() raises
ResetPostFail ==
    /\ pc = "reset_post"
    /\ \E r \in ResetOutcomes :
          /\ r.kind # "ok"
          /\ log' = Append(log, Ev("POST /reset", attempt + 1, "fail"))
    /\ ret' = Unresponsive
    /\ pc' = "idle"
    /\ UNCHANGED <<client, server_cmd, restartVars, cacheVars, attempt, vecVars, launchVars>>

\* step(action) answered by a payload with all its fields
StepOk ==
    /\ pc = "idle"
    /\ \E a \in Actions, r \in StepOutcomes :
          /\ r.kind = "ok"
          /\ Cache(r)
          /\ log' = <<Ev("POST /step", a, r.kind)>>
          /\ ret' = StepResult(r)
    /\ UNCHANGED <<client, server_cmd, restartVars, attempt, pc, vecVars, launchVars>>

\* mutant: a step that answers a failed exchange by killing the simulator
StepTransportFailKills ==
    /\ pc = "idle"
    /\ \E a \in Actions, k \in TransportFailures :
          log' = <<Ev("POST /step", a, k)>>
                 \o (IF server_proc # 0
                     THEN <<Ev("_kill_proc", server_proc, "")>> ELSE <<>>)
                 \o <<Ev("_kill_port", 0, "")>>
    /\ alive' = alive \ {server_proc}
    /\ server_proc' = 0
    /\ ret' = SyntheticTerminal
    /\ UNCHANGED <<client, server_cmd, session, polls, cacheVars, attempt, pc,
                   vecVars, launchVars>>

\* mutant: a failed /step is sent a second time
StepTransportFailSendsAgain ==
    /\ pc = "idle"
    /\ \E a \in Actions, k \in TransportFailures :
          log' = <<Ev("POST /step", a, k), Ev("POST /step", a, k)>>
    /\ ret' = SyntheticTerminal
    /\ UNCHANGED <<client, server_cmd, restartVars, cacheVars, attempt, pc, vecVars, launchVars>>

\* variant: a failed step forgets the cached mask
StepTransportFailClearsMask ==
    /\ pc = "idle"
    /\ \E a \in Actions, k \in TransportFailures :
          log' = <<Ev("POST /step", a, k)>>
    /\ current_action_mask' = AllLegal
    /\ ret' = [SyntheticTerminal EXCEPT !.mask = AllLegal]
    /\ UNCHANGED <<client, server_cmd, restartVars, last_obs, seenGood, goodObs,
                   goodMask, wellFormed, attempt, pc, vecVars, launchVars>>

\* step(action) whose exchange raises inside the try block
StepTransportFail ==
    /\ pc = "idle"
    /\ \E a \in Actions, k \in TransportFailures :
          log' = <<Ev("POST /step", a, k)>>
    /\ ret' = SyntheticTerminal
    /\ UNCHANGED <<client, server_cmd, restartVars, cacheVars, attempt, pc, vecVars, launchVars>>

\* step(action) answered by JSON without "observation", "reward" or "done":
\* the lookup after the try block raises KeyError
StepMalformed ==
    /\ pc = "idle"
    /\ \E a \in Actions : log' = <<Ev("POST /step", a, "missing")>>
    /\ ret' = Raise("step", "KeyError")
    /\ UNCHANGED <<client, server_cmd, restartVars, cacheVars, attempt, pc, vecVars, launchVars>>

\* mutant: close() that also kills whatever is bound to the port
CloseKillsByPort ==
    /\ pc = "idle"
    /\ session' = "closed"
    /\ log' = <<Ev("session.close", 0, "")>>
              \o (IF server_proc # 0 /\ server_proc \in alive
                  THEN <<Ev("_kill_proc", server_proc, "")>> ELSE <<>>)
              \o <<Ev("_kill_port", 0, "")>>
    /\ alive' = alive \ {server_proc}
    /\ server_proc' = IF server_proc \in alive THEN 0 ELSE server_proc
    /\ ret' = [NoRet EXCEPT !.op = "close", !.kind = "return"]
    /\ UNCHANGED <<client, server_cmd, polls, cacheVars, attempt, pc, vecVars, launchVars>>

\* mutant: close() that closes the session and leaves the process running
CloseSessionOnly ==
    /\ pc = "idle"
    /\ session' = "closed"
    /\ log' = <<Ev("session.close", 0, "")>>
    /\ ret' = [NoRet EXCEPT !.op = "close", !.kind = "return"]
    /\ UNCHANGED <<client, server_cmd, server_proc, alive, polls, cacheVars,
                   attempt, pc, vecVars, launchVars>>

\* close(): close the session, kill the tracked process if it still runs
Close ==
    /\ pc = "idle"
    /\ session' = "closed"
    /\ log' = <<Ev("session.close", 0, "")>>
              \o (IF server_proc # 0 /\ server_proc \in alive
                  THEN <<Ev("_kill_proc", server_proc, "")>> ELSE <<>>)
    /\ alive' = alive \ {server_proc}
    /\ server_proc' = IF server_proc \in alive THEN 0 ELSE server_proc
    /\ ret' = [NoRet EXCEPT !.op = "close", !.kind = "return"]
    /\ UNCHANGED <<client, server_cmd, polls, cacheVars, attempt, pc, vecVars, launchVars>>

\* the simulator process this client spawned exits by itself
ProcExit ==
    /\ pc = "idle"
    /\ \E p \in alive : alive' = alive \ {p}
    /\ UNCHANGED <<client, server_cmd, server_proc, session, polls, cacheVars, attempt,
                   pc, log, ret, vecVars, launchVars>>

----------------------------------------------------------------------------
(* SelfPlayVecEnv *)

VEC_RESET_MAX_RETRIES == 3
VEC_RESET_BACKOFF_BASE == 2

\* np.tile(row, (n, 1))
Tile(row) == [i \in Seats |-> row]

NoVecRet == [op |-> "none", kind |-> "none", exc |-> "none", obs |-> <<>>,
             rewards |-> <<>>, dones |-> <<>>, infos |-> <<>>,
             masks |-> <<>>, timeout |-> FALSE]

\* the action vectors step_async is given
PendingChoices == {[i \in Seats |-> 0], [i \in Seats |-> (i - 1) % NumActions]}

\* info.actionMask of one seat in a /step-multi response
SeatMasks == {NoMask, [has |-> TRUE, m |-> PassOnly]}

\* the N observations of a /step-multi response: the same for every seat,
\* or differing from seat to seat
SeatObs == {Tile(o) : o \in GoodObs} \cup {[i \in Seats |-> Const(ObsSize, i % 2)]}

\* what the simulator may answer to POST /step-multi
StepMultiOutcomes ==
    {[kind |-> "ok", obs |-> o, masks |-> m, rewards |-> Const(NumAgents, w),
      dones |-> d] :
        o \in SeatObs, m \in [Seats -> SeatMasks], w \in {0, 1},
        d \in [Seats -> BOOLEAN]}
    \cup {[kind |-> k, obs |-> <<>>, masks |-> <<>>, rewards |-> <<>>,
           dones |-> <<>>] : k \in ExchangeKinds \ {"ok"}}

\* backoff = RESET_BACKOFF_BASE ** (attempt + 1)
VecBackoff(a) == Pow(VEC_RESET_BACKOFF_BASE, a + 1)

\* all(dones)
AllDone(dones) == \A i \in DOMAIN dones : dones[i]

VecRaise(op, exc) == [NoVecRet EXCEPT !.op = op, !.kind = "raise", !.exc = exc]

VecRunning(op) == [NoVecRet EXCEPT !.op = op, !.kind = "running"]

\* the batch step_wait builds from a response: lines 195-204; infos keeps
\* each seat's "actionMask" as it came, masks is the injected "action_masks"
BatchOf(r) ==
    [NoVecRet EXCEPT !.op = "step_wait", !.kind = "running", !.obs = r.obs,
                     !.rewards = r.rewards, !.dones = r.dones,
                     !.infos = r.masks,
                     !.masks = [i \in Seats |-> MaskOf(r.masks[i])]]

\* mutant: the made-up batch reports all-legal masks
SyntheticBatchAllLegal ==
    [NoVecRet EXCEPT !.op = "step_wait", !.kind = "running",
                     !.obs = vec_last_obs,
                     !.rewards = Const(NumAgents, 0),
                     !.dones = Const(NumAgents, TRUE),
                     !.masks = Tile(AllLegal),
                     !.timeout = TRUE]

\* the terminal batch step_wait makes up when the exchange raised
SyntheticBatch ==
    [NoVecRet EXCEPT !.op = "step_wait", !.kind = "running",
                     !.obs = vec_last_obs,
                     !.rewards = Const(NumAgents, 0),
                     !.dones = Const(NumAgents, TRUE),
                     !.masks = vec_action_masks,
                     !.timeout = TRUE]

\* mutant: any(dones) in place of all(dones)
AutoResetAny(dones) == \E i \in DOMAIN dones : dones[i]

\* whether step_wait resets after a response with these done flags
AutoReset(dones) == AllDone(dones)

\* mutant: after the fused reset the batch reports the new episode's flags
VecResetReturnFreshDones(all_obs) ==
    IF vcaller = "reset"
    THEN [NoVecRet EXCEPT !.op = "reset", !.kind = "return", !.obs = all_obs]
    ELSE [vlocal EXCEPT !.kind = "return", !.obs = all_obs,
                        !.dones = Const(NumAgents, FALSE)]

\* mutant: after the fused reset the batch reports no reward
VecResetReturnZeroRewards(all_obs) ==
    IF vcaller = "reset"
    THEN [NoVecRet EXCEPT !.op = "reset", !.kind = "return", !.obs = all_obs]
    ELSE [vlocal EXCEPT !.kind = "return", !.obs = all_obs,
                        !.rewards = Const(NumAgents, 0)]

\* what reset() hands back: the tiled observation to a caller of reset(),
\* to step_wait the observation that replaces the batch's
VecResetReturn(all_obs) ==
    IF vcaller = "reset"
    THEN [NoVecRet EXCEPT !.op = "reset", !.kind = "return", !.obs = all_obs]
    ELSE [vlocal EXCEPT !.kind = "return", !.obs = all_obs]

\* the operation the caller sees fail when reset() raises
VecOp == IF vcaller = "reset" THEN "reset" ELSE "step_wait"

\* mutant: the retry loop makes a fourth attempt
VecAfterFailedAttemptFourTries(a) ==
    IF a + 1 < VEC_RESET_MAX_RETRIES + 1 THEN "reset_try" ELSE "reset_exhausted"

\* where the retry loop goes after a failed attempt
VecAfterFailedAttempt(a) ==
    IF a + 1 < VEC_RESET_MAX_RETRIES THEN "reset_try" ELSE "reset_exhausted"

vecCache == <<vec_action_masks, vec_last_obs>>

NoReset == [kind |-> "none", obs |-> <<>>, mask |-> NoMask]

\* reset() is called by the user of the client
VecResetCall ==
    /\ vpc = "idle"
    /\ vpc' = "reset_try"
    /\ vcaller' = "reset"
    /\ vattempt' = 0
    /\ vlog' = <<Ev("reset()", 0, "")>>
    /\ vret' = VecRunning("reset")
    /\ vlocal' = NoVecRet
    /\ vreset' = NoReset
    /\ UNCHANGED <<vecCache, pending_actions, envVars, launchVars>>

\* mutant: the accepted response is stored for seat 0 only
VecResetAttemptOkFirstSeatOnly ==
    /\ vpc = "reset_try"
    /\ \E r \in ResetOutcomes :
          /\ r.kind = "ok"
          /\ vec_action_masks' = [vec_action_masks EXCEPT ![1] = MaskOf(r.mask)]
          /\ vec_last_obs' = [vec_last_obs EXCEPT ![1] = r.obs]
          /\ vreset' = r
          /\ vlog' = Append(vlog, Ev("POST /reset", vattempt + 1, "ok"))
          /\ vret' = VecResetReturn(Tile(r.obs))
    /\ vpc' = "idle"
    /\ UNCHANGED <<pending_actions, vattempt, vcaller, vlocal, envVars, launchVars>>

\* variant: the accepted reset refreshes the observations but not the masks
VecResetAttemptOkKeepsMasks ==
    /\ vpc = "reset_try"
    /\ \E r \in ResetOutcomes :
          /\ r.kind = "ok"
          /\ vec_last_obs' = Tile(r.obs)
          /\ vreset' = r
          /\ vlog' = Append(vlog, Ev("POST /reset", vattempt + 1, "ok"))
          /\ vret' = VecResetReturn(Tile(r.obs))
    /\ vpc' = "idle"
    /\ UNCHANGED <<vec_action_masks, pending_actions, vattempt, vcaller, vlocal,
                   envVars, launchVars>>

\* an attempt of the retry loop whose response is accepted: broadcast
VecResetAttemptOk ==
    /\ vpc = "reset_try"
    /\ \E r \in ResetOutcomes :
          /\ r.kind = "ok"
          /\ vec_action_masks' = Tile(MaskOf(r.mask))
          /\ vec_last_obs' = Tile(r.obs)
          /\ vreset' = r
          /\ vlog' = Append(vlog, Ev("POST /reset", vattempt + 1, "ok"))
          /\ vret' = VecResetReturn(Tile(r.obs))
    /\ vpc' = "idle"
    /\ UNCHANGED <<pending_actions, vattempt, vcaller, vlocal, envVars, launchVars>>

\* an attempt of the retry loop that raises: except Exception, back off
VecResetAttemptFail ==
    /\ vpc = "reset_try"
    /\ \E r \in ResetOutcomes :
          /\ r.kind # "ok"
          /\ vlog' = vlog \o <<Ev("POST /reset", vattempt + 1, "fail"),
                               Ev("sleep", VecBackoff(vattempt), "")>>
    /\ vattempt' = vattempt + 1
    /\ vpc' = VecAfterFailedAttempt(vattempt)
    /\ UNCHANGED <<vecCache, vreset, pending_actions, vcaller, vlocal, vret,
                   envVars, launchVars>>

\* the loop is over: reset() raises ConnectionError, through step_wait too
VecResetExhausted ==
    /\ vpc = "reset_exhausted"
    /\ vret' = VecRaise(VecOp, "ConnectionError")
    /\ vpc' = "idle"
    /\ UNCHANGED <<vecCache, vreset, pending_actions, vattempt, vcaller, vlocal,
                   vlog, envVars, launchVars>>

\* step_async(actions)
StepAsync ==
    /\ vpc = "idle"
    /\ pending_actions' \in PendingChoices
    /\ vret' = [NoVecRet EXCEPT !.op = "step_async", !.kind = "return"]
    /\ vlog' = <<>>
    /\ vreset' = NoReset
    /\ vlocal' = NoVecRet
    /\ UNCHANGED <<vecCache, vpc, vattempt, vcaller, envVars, launchVars>>

\* step_wait() with no pending actions raises RuntimeError
StepWaitNoPending ==
    /\ vpc = "idle"
    /\ pending_actions = <<>>
    /\ vlog' = <<>>
    /\ vret' = VecRaise("step_wait", "RuntimeError")
    /\ vreset' = NoReset
    /\ vlocal' = NoVecRet
    /\ UNCHANGED <<vecCache, pending_actions, vpc, vattempt, vcaller, envVars, launchVars>>

\* mutant: every seat's row is overwritten from seat 0's entry
VecStoreFirstSeatMask(r) ==
    /\ pending_actions' = <<>>
    /\ vec_action_masks' = [i \in Seats |-> MaskOf(r.masks[1])]
    /\ vec_last_obs' = r.obs
    /\ vreset' = NoReset

\* the assignments of step_wait after a response: lines 193, 205, 207
VecStore(r) ==
    /\ pending_actions' = <<>>
    /\ vec_action_masks' = [i \in Seats |-> MaskOf(r.masks[i])]
    /\ vec_last_obs' = r.obs
    /\ vreset' = NoReset

\* step_wait() answered by a batch that is not all done
StepWaitContinue ==
    /\ vpc = "idle"
    /\ pending_actions # <<>>
    /\ \E r \in StepMultiOutcomes :
          /\ r.kind = "ok"
          /\ ~AutoReset(r.dones)
          /\ VecStore(r)
          /\ vlocal' = BatchOf(r)
          /\ vret' = [BatchOf(r) EXCEPT !.kind = "return"]
    /\ vlog' = <<Ev("POST /step-multi", Len(pending_actions), "ok")>>
    /\ UNCHANGED <<vpc, vattempt, vcaller, envVars, launchVars>>

\* step_wait() answered by an all-done batch: it calls reset()
StepWaitAllDone ==
    /\ vpc = "idle"
    /\ pending_actions # <<>>
    /\ \E r \in StepMultiOutcomes :
          /\ r.kind = "ok"
          /\ AutoReset(r.dones)
          /\ VecStore(r)
          /\ vlocal' = BatchOf(r)
    /\ vlog' = <<Ev("POST /step-multi", Len(pending_actions), "ok"),
                 Ev("reset()", 0, "")>>
    /\ vret' = VecRunning("step_wait")
    /\ vcaller' = "step_done"
    /\ vattempt' = 0
    /\ vpc' = "reset_try"
    /\ UNCHANGED <<envVars, launchVars>>

\* mutant: a failed /step-multi is sent a second time
StepWaitTransportFailRetries ==
    /\ vpc = "idle"
    /\ pending_actions # <<>>
    /\ \E k \in TransportFailures :
          vlog' = <<Ev("POST /step-multi", Len(pending_actions), "fail"),
                    Ev("POST /step-multi", Len(pending_actions), "fail"),
                    Ev("reset()", 0, "")>>
    /\ pending_actions' = <<>>
    /\ vlocal' = SyntheticBatch
    /\ vret' = VecRunning("step_wait")
    /\ vcaller' = "step_fail"
    /\ vattempt' = 0
    /\ vpc' = "reset_try"
    /\ vreset' = NoReset
    /\ UNCHANGED <<vecCache, envVars, launchVars>>

\* step_wait() whose exchange raises inside the try block: it makes up a
\* terminal batch and calls reset()
StepWaitTransportFail ==
    /\ vpc = "idle"
    /\ pending_actions # <<>>
    /\ \E k \in TransportFailures :
          vlog' = <<Ev("POST /step-multi", Len(pending_actions), "fail"),
                    Ev("reset()", 0, "")>>
    /\ pending_actions' = <<>>
    /\ vlocal' = SyntheticBatch
    /\ vret' = VecRunning("step_wait")
    /\ vcaller' = "step_fail"
    /\ vattempt' = 0
    /\ vpc' = "reset_try"
    /\ vreset' = NoReset
    /\ UNCHANGED <<vecCache, envVars, launchVars>>

\* mutant: the buffer is cleared after the lookups instead of before them
StepWaitMalformedKeepsPending ==
    /\ vpc = "idle"
    /\ pending_actions # <<>>
    /\ vlog' = <<Ev("POST /step-multi", Len(pending_actions), "missing")>>
    /\ vret' = VecRaise("step_wait", "KeyError")
    /\ vreset' = NoReset
    /\ vlocal' = NoVecRet
    /\ UNCHANGED <<vecCache, pending_actions, vpc, vattempt, vcaller, envVars, launchVars>>

\* step_wait() answered by JSON without "observations", "rewards", "dones"
\* or "infos": the lookup after the try block raises KeyError
StepWaitMalformed ==
    /\ vpc = "idle"
    /\ pending_actions # <<>>
    /\ vlog' = <<Ev("POST /step-multi", Len(pending_actions), "missing")>>
    /\ pending_actions' = <<>>
    /\ vret' = VecRaise("step_wait", "KeyError")
    /\ vreset' = NoReset
    /\ vlocal' = NoVecRet
    /\ UNCHANGED <<vecCache, vpc, vattempt, vcaller, envVars, launchVars>>

\* action_masks(): return self._action_masks
VecActionMasks ==
    /\ vpc = "idle"
    /\ vlog' = <<>>
    /\ vret' = [NoVecRet EXCEPT !.op = "action_masks", !.kind = "return",
                                !.masks = vec_action_masks]
    /\ vreset' = NoReset
    /\ vlocal' = NoVecRet
    /\ UNCHANGED <<vecCache, pending_actions, vpc, vattempt, vcaller, envVars, launchVars>>

----------------------------------------------------------------------------
(* launch_servers *)

NumEnvs == 2
LaunchMaxPolls == 2
MaxCleanups == 2
BASE_PORT == 9100

NoLaunchRet == [kind |-> "none", exc |-> "none"]

\* port = base_port + i, i in range(num_envs)
PortOf(i) == BASE_PORT + i

\* the servers cleanup() finds running, in list order: proc.poll() is None
StillRunning(srv, run) == SelectSeq(srv, LAMBDA p : p \in run)

\* cleanup(): _kill_proc_tree on every server of the list that still runs
CleanupLog(srv, run) ==
    <<Ev("cleanup", 0, "")>>
    \o [k \in 1..Len(StillRunning(srv, run)) |->
           Ev("_kill_proc_tree", StillRunning(srv, run)[k], "")]

\* the processes left after cleanup()
AfterCleanup(srv, run) == run \ {srv[k] : k \in DOMAIN srv}

\* launch_servers(num_envs, base_port) is called
LaunchCall ==
    /\ lpc = "idle"
    /\ lpc' = "spawn"
    /\ servers' = <<>>
    /\ llog' = <<Ev("atexit.register", 0, "")>>
    /\ UNCHANGED <<running, waiting, lpolls, lret, envVars, vecVars>>

\* one turn of the spawn loop: Popen with TRAINING_PORT = port
LaunchSpawn ==
    /\ lpc = "spawn"
    /\ Len(servers) < NumEnvs
    /\ servers' = Append(servers, PortOf(Len(servers)))
    /\ running' = running \cup {PortOf(Len(servers))}
    /\ llog' = Append(llog, Ev("Popen", PortOf(Len(servers)), "ok"))
    /\ lpc' = IF Len(servers) + 1 = NumEnvs THEN "wait" ELSE "spawn"
    /\ waiting' = 1
    /\ lpolls' = 0
    /\ UNCHANGED <<lret, envVars, vecVars>>

\* Popen raises in the spawn loop: nothing catches it, nothing is cleaned up
LaunchSpawnRaises ==
    /\ lpc = "spawn"
    /\ Len(servers) < NumEnvs
    /\ llog' = Append(llog, Ev("Popen", PortOf(Len(servers)), "raise"))
    /\ lret' = [kind |-> "raise", exc |-> "OSError"]
    /\ lpc' = "raised"
    /\ UNCHANGED <<servers, running, waiting, lpolls, envVars, vecVars>>

\* a spawned server exits by itself
LaunchServerExit ==
    /\ lpc \in {"wait", "returned"}
    /\ \E p \in running : running' = running \ {p}
    /\ UNCHANGED <<lpc, servers, waiting, lpolls, llog, lret, envVars, vecVars>>

\* wait loop: proc.poll() is not None: cleanup(), raise RuntimeError
LaunchCrashed ==
    /\ lpc = "wait"
    /\ lpolls < LaunchMaxPolls
    /\ servers[waiting] \notin running
    /\ llog' = Append(llog, Ev("poll", servers[waiting], "exited"))
                \o CleanupLog(servers, running)
    /\ running' = AfterCleanup(servers, running)
    /\ lret' = [kind |-> "raise", exc |-> "RuntimeError"]
    /\ lpc' = "raised"
    /\ UNCHANGED <<servers, waiting, lpolls, envVars, vecVars>>

\* variant: launch_servers returns as soon as one server is healthy
LaunchProbeOkFirstOnly ==
    /\ lpc = "wait"
    /\ lpolls < LaunchMaxPolls
    /\ servers[waiting] \in running
    /\ llog' = Append(llog, Ev("GET /health", servers[waiting], "ok"))
    /\ lpc' = "returned"
    /\ lret' = [kind |-> "return", exc |-> "none"]
    /\ UNCHANGED <<waiting, lpolls, servers, running, envVars, vecVars>>

\* wait loop: 200 {"status": "ok"}: this server is healthy, on to the next;
\* after the last one launch_servers returns (servers, cleanup)
LaunchProbeOk ==
    /\ lpc = "wait"
    /\ lpolls < LaunchMaxPolls
    /\ servers[waiting] \in running
    /\ llog' = Append(llog, Ev("GET /health", servers[waiting], "ok"))
    /\ IF waiting = Len(servers)
       THEN /\ lpc' = "returned"
            /\ lret' = [kind |-> "return", exc |-> "none"]
            /\ UNCHANGED <<waiting, lpolls>>
       ELSE /\ waiting' = waiting + 1
            /\ lpolls' = 0
            /\ UNCHANGED <<lpc, lret>>
    /\ UNCHANGED <<servers, running, envVars, vecVars>>

\* wait loop: refused, timed out or not ok yet: sleep and poll again
LaunchProbeNotReady ==
    /\ lpc = "wait"
    /\ lpolls < LaunchMaxPolls
    /\ servers[waiting] \in running
    /\ llog' = llog \o <<Ev("GET /health", servers[waiting], "fail"),
                          Ev("sleep", 1, "")>>
    /\ lpolls' = lpolls + 1
    /\ UNCHANGED <<lpc, servers, running, waiting, lret, envVars, vecVars>>

\* wait loop: status 200 with a body that is not JSON: resp.json() raises
\* past the except clause, and launch_servers ends without cleanup()
LaunchProbeRaises ==
    /\ lpc = "wait"
    /\ lpolls < LaunchMaxPolls
    /\ servers[waiting] \in running
    /\ llog' = Append(llog, Ev("GET /health", servers[waiting], "notjson"))
    /\ lret' = [kind |-> "raise", exc |-> "JSONDecodeError"]
    /\ lpc' = "raised"
    /\ UNCHANGED <<servers, running, waiting, lpolls, envVars, vecVars>>

\* variant: the deadline raises TimeoutError without calling cleanup()
LaunchDeadlineNoCleanup ==
    /\ lpc = "wait"
    /\ lpolls >= 1
    /\ llog' = Append(llog, Ev("deadline", servers[waiting], ""))
    /\ lret' = [kind |-> "raise", exc |-> "TimeoutError"]
    /\ lpc' = "raised"
    /\ UNCHANGED <<servers, running, waiting, lpolls, envVars, vecVars>>

\* wait loop left without healthy: cleanup(), raise TimeoutError
LaunchDeadline ==
    /\ lpc = "wait"
    /\ lpolls >= 1
    /\ llog' = Append(llog, Ev("deadline", servers[waiting], ""))
                \o CleanupLog(servers, running)
    /\ running' = AfterCleanup(servers, running)
    /\ lret' = [kind |-> "raise", exc |-> "TimeoutError"]
    /\ lpc' = "raised"
    /\ UNCHANGED <<servers, waiting, lpolls, envVars, vecVars>>

\* how many times cleanup() has been entered
CleanupsRun(l) == Cardinality({i \in DOMAIN l : l[i].e = "cleanup"})

\* cleanup() run by the caller or by atexit once launch_servers has ended
LaunchCleanup ==
    /\ lpc \in {"returned", "raised"}
    /\ CleanupsRun(llog) < MaxCleanups
    /\ llog' = llog \o CleanupLog(servers, running)
    /\ running' = AfterCleanup(servers, running)
    /\ UNCHANGED <<lpc, servers, waiting, lpolls, lret, envVars, vecVars>>

LaunchRest ==
    /\ lpc = "idle"
    /\ servers = <<>>
    /\ running = {}
    /\ waiting = 0
    /\ lpolls = 0
    /\ llog = <<>>
    /\ lret = NoLaunchRet

EnvRest ==
    /\ server_proc = 0
    /\ alive = {}
    /\ session = "open"
    /\ current_action_mask = AllLegal
    /\ last_obs = ZeroObs
    /\ attempt = 0
    /\ polls = 0
    /\ log = <<>>
    /\ ret = NoRet
    /\ seenGood = FALSE
    /\ goodObs = ZeroObs
    /\ goodMask = AllLegal
    /\ wellFormed = TRUE

VecInit ==
    /\ vec_action_masks = [i \in Seats |-> AllLegal]
    /\ vec_last_obs = [i \in Seats |-> ZeroObs]
    /\ pending_actions = <<>>
    /\ vpc = "idle"
    /\ vattempt = 0
    /\ vcaller = "none"
    /\ vlocal = NoVecRet
    /\ vlog = <<>>
    /\ vret = NoVecRet
    /\ vreset = NoReset

\* the single-agent client, about to be constructed with or without
\* server_cmd
Init ==
    /\ LaunchRest
    /\ client = "env"
    /\ server_cmd \in {"None", "cmd"}
    /\ pc = "new"
    /\ EnvRest
    /\ VecInit

\* the vectorized client
VecOnlyInit ==
    /\ LaunchRest
    /\ client = "vec"
    /\ server_cmd = "None"
    /\ pc = "idle"
    /\ EnvRest
    /\ VecInit

\* a program that uses one of the two clients
AnyInit == Init \/ VecOnlyInit

VecNext ==
    \/ VecResetCall
    \/ VecResetAttemptOk
    \/ VecResetAttemptFail
    \/ VecResetExhausted
    \/ StepAsync
    \/ StepWaitNoPending
    \/ StepWaitContinue
    \/ StepWaitAllDone
    \/ StepWaitTransportFail
    \/ StepWaitMalformed
    \/ VecActionMasks

Next ==
    \/ Construct
    \/ ConstructFails
    \/ ActionMasks
    \/ ResetCall
    \/ ResetAttemptOk
    \/ ResetAttemptFail
    \/ RestartNoCmd
    \/ RestartKill
    \/ RestartSpawn
    \/ RestartSpawnRaises
    \/ HealthCrashed
    \/ HealthProbeOk
    \/ HealthProbeNotReady
    \/ HealthProbeRaises
    \/ HealthDeadline
    \/ ResetPostOk
    \/ ResetPostFail
    \/ StepOk
    \/ StepTransportFail
    \/ StepMalformed
    \/ Close
    \/ ProcExit

Spec == Init /\ [][Next]_vars

VecSpec == VecOnlyInit /\ [][VecNext]_vars

\* the steps of a reset() call that has been entered: the calling thread
\* keeps running, every request has a timeout and every sleep ends
InsideReset ==
    \/ ResetAttemptOk
    \/ ResetAttemptFail
    \/ RestartNoCmd
    \/ RestartKill
    \/ RestartSpawn
    \/ RestartSpawnRaises
    \/ HealthCrashed
    \/ HealthProbeOk
    \/ HealthProbeNotReady
    \/ HealthProbeRaises
    \/ HealthDeadline
    \/ ResetPostOk
    \/ ResetPostFail

LiveSpec == Init /\ [][Next]_vars /\ WF_vars(InsideReset)

\* the launcher, before any client is constructed
LaunchInit ==
    /\ LaunchRest
    /\ client = "env"
    /\ server_cmd = "None"
    /\ pc = "new"
    /\ EnvRest
    /\ VecInit

LaunchNext ==
    \/ LaunchCall
    \/ LaunchSpawn
    \/ LaunchSpawnRaises
    \/ LaunchServerExit
    \/ LaunchCrashed
    \/ LaunchProbeOk
    \/ LaunchProbeNotReady
    \/ LaunchProbeRaises
    \/ LaunchDeadline
    \/ LaunchCleanup

LaunchSpec == LaunchInit /\ [][LaunchNext]_vars

AnyNext ==
    \/ client = "env" /\ Next
    \/ client = "vec" /\ VecNext

AnySpec == AnyInit /\ [][AnyNext]_vars

\* the steps of a vectorized reset() that has been entered, by the user or
\* by step_wait: one request with a timeout and one sleep per attempt
InsideVecReset ==
    \/ VecResetAttemptOk
    \/ VecResetAttemptFail
    \/ VecResetExhausted

\* either client, with the thread that called reset() kept running
AnyLiveSpec ==
    AnyInit /\ [][AnyNext]_vars /\ WF_vars(InsideReset) /\ WF_vars(InsideVecReset)

----------------------------------------------------------------------------
(* Properties *)

Count(l, e) == Cardinality({i \in DOMAIN l : l[i].e = e})
Has(l, ev) == \E i \in DOMAIN l : l[i] = ev
Before(l, e1, e2) ==
    \A i, j \in DOMAIN l : (l[i].e = e1 /\ l[j].e = e2) => i < j
\* the attempts of reset()'s retry loop (the one after a restart is the 4th)
LoopTries(l) == {i \in DOMAIN l : l[i].e = "POST /reset" /\ l[i].n <= 3}
LoopFailures(l) == {i \in LoopTries(l) : l[i].r = "fail"}
RestartEvents == {"_kill_proc", "_kill_port", "Popen", "poll", "GET /health",
                  "session.close", "Session"}
NoneDone(dones) == \A i \in DOMAIN dones : ~dones[i]

\* C1: a single-agent step whose /step exchange fails at the transport
\* returns (does not raise) terminated = true, reward 0, timeout = true, the
\* cached mask and the cached observation, which are the mask and the
\* observation of the most recent reset or step that returned a response.
C1_StepFailureReturnsCachedTerminal ==
    (pc = "idle" /\ ret.op = "step" /\ log[1].r \in TransportFailures) =>
        /\ ret.kind = "return"
        /\ ret.terminated = TRUE
        /\ ret.reward = 0
        /\ ret.timeout = TRUE
        /\ ret.mask = current_action_mask
        /\ ret.obs = last_obs
        /\ seenGood => (ret.obs = goodObs /\ ret.mask = goodMask)

\* a step timed out after a call had returned a non-zero observation and a
\* restricted mask
C1_Witness ==
    /\ pc = "idle" /\ ret.op = "step" /\ log[1].r = "timeout"
    /\ seenGood /\ goodObs # ZeroObs /\ goodMask = PassOnly
    /\ ret.timeout

C3_DonesAllOrNothing ==
    (vpc = "idle" /\ vret.op = "step_wait" /\ vret.kind = "return") =>
        (AllDone(vret.dones) \/ NoneDone(vret.dones))

\* C3 (amended): every batch step_wait returns carries the done flags of the
\* /step-multi response unchanged, and all true after a transport failure;
\* the client adds and removes no flag, also across the fused reset.
C3_DonesPassThrough ==
    (vpc = "idle" /\ vret.op = "step_wait" /\ vret.kind = "return") =>
        /\ vret.dones = vlocal.dones
        /\ DOMAIN vret.dones = Seats
        /\ vlocal.timeout => AllDone(vret.dones)
        /\ Count(vlog, "reset()") = 1 => AllDone(vret.dones)

\* an all-done batch was returned after its fused reset, flags still true
C3_Witness ==
    /\ vpc = "idle" /\ vret.op = "step_wait" /\ vret.kind = "return"
    /\ ~vlocal.timeout
    /\ Count(vlog, "reset()") = 1
    /\ AllDone(vret.dones)

\* C4: without server_cmd, a reset() whose three attempts failed raises
\* ConnectionError and has killed nothing, spawned nothing, probed /health
\* never and sent no fourth /reset.
C4_NoSpawnSpecNoRestart ==
    (server_cmd = "None" /\ ret.op = "reset"
        /\ Cardinality(LoopFailures(log)) >= 3) =>
        /\ pc \in {"restart", "idle"}
        /\ Count(log, "POST /reset") = 3
        /\ \A i \in DOMAIN log : log[i].e \notin RestartEvents
        /\ server_proc = 0 /\ alive = {}
        /\ pc = "idle" => ret = Unresponsive

\* reset() has raised on a client without server_cmd
C4_Witness ==
    /\ server_cmd = "None" /\ pc = "idle" /\ ret = Unresponsive
    /\ Cardinality(LoopFailures(log)) = 3

\* C5: with server_cmd, a reset() whose three attempts failed runs one
\* restart cycle (kill, then spawn, then health polls, then at most one more
\* /reset), spawns once, sends at most four /reset and ends either by
\* returning the fourth /reset's result or by raising ConnectionError.
C5_OneRestartThenReturnOrUnresponsive ==
    (pc = "idle" /\ ret.op = "reset" /\ server_cmd # "None"
        /\ Cardinality(LoopFailures(log)) = 3) =>
        /\ Count(log, "_kill_port") = 1
        /\ Count(log, "Popen") = 1
        /\ Before(log, "_kill_port", "Popen")
        /\ Before(log, "Popen", "GET /health")
        /\ \A i, j \in DOMAIN log :
              (log[i].e = "GET /health" /\ log[j].e = "POST /reset"
                  /\ log[j].n = 4) => i < j
        /\ Count(log, "POST /reset") <= 4
        /\ \/ /\ ret.kind = "return"
              /\ log[Len(log)] = Ev("POST /reset", 4, "ok")
              /\ ret.obs = last_obs
           \/ ret = Unresponsive

\* C6: step() never raises, whatever way the /step exchange fails: refused,
\* timed out, not JSON, or JSON without its required fields.
C6_StepNeverRaises ==
    (pc = "idle" /\ ret.op = "step") =>
        /\ ret.kind = "return"
        /\ log[1].r # "ok" => (ret.terminated /\ ret.timeout)

\* C7: when the /step-multi exchange fails at the transport, step_wait makes
\* up zero rewards, done = true and timeout = true for all N seats with each
\* seat's cached mask, calls reset() once at once, and what it then returns
\* carries those rewards, flags and (pre-reset) masks.
C7_FailedStepWaitSynthesizesAndResets ==
    [][ /\ (vpc = "idle" /\ pending_actions # <<>> /\ pending_actions' = <<>>
               /\ vlog'[1] = Ev("POST /step-multi", NumAgents, "fail")) =>
              /\ vlocal'.rewards = [i \in Seats |-> 0]
              /\ vlocal'.dones = [i \in Seats |-> TRUE]
              /\ vlocal'.timeout = TRUE
              /\ vlocal'.masks = vec_action_masks
              /\ vlog'[2].e = "reset()" /\ Len(vlog') = 2
              /\ vpc' = "reset_try"
        /\ (vpc = "reset_try" /\ vcaller = "step_fail" /\ vpc' = "idle") =>
              /\ vret'.kind = "return"
              /\ vret'.rewards = [i \in Seats |-> 0]
              /\ vret'.dones = [i \in Seats |-> TRUE]
              /\ vret'.timeout = TRUE
              /\ vret'.masks = vec_action_masks
              /\ Count(vlog', "reset()") = 1
      ]_vars

\* a failed step_wait has returned, its infos carrying masks that the fused
\* reset has since replaced
C7_Witness ==
    /\ vpc = "idle" /\ vret.op = "step_wait" /\ vret.kind = "return"
    /\ vret.timeout
    /\ vret.masks # vec_action_masks
    /\ vret.masks # Tile(AllLegal)

\* C8: a step_wait whose /step-multi exchange failed never raises.
C8_StepWaitAbsorbsStepFailure ==
    (vpc = "idle" /\ vret.op = "step_wait" /\ Len(vlog) >= 1
        /\ vlog[1].e = "POST /step-multi" /\ vlog[1].r = "fail") =>
        vret.kind = "return"

\* C9: the retry loop of reset() makes at most 3 attempts, numbered 1, 2, 3;
\* the k-th failed one is followed by a sleep of 2, 4, 8 seconds; an attempt
\* that succeeds is the last thing the call does.
C9_RetryLoopBackoff ==
    ret.op = "reset" =>
        /\ Cardinality(LoopTries(log)) <= 3
        /\ \A i \in LoopTries(log) :
              /\ log[i].n = Cardinality({j \in LoopTries(log) : j <= i})
              /\ log[i].r = "fail" =>
                    /\ i < Len(log)
                    /\ log[i + 1] = Ev("sleep", <<2, 4, 8>>[log[i].n], "")
              /\ log[i].r = "ok" =>
                    (i = Len(log) /\ pc = "idle" /\ ret.kind = "return")
        /\ \A i \in DOMAIN log :
              (log[i].e = "sleep" /\ log[i].n >= 2) =>
                  (i > 1 /\ (i - 1) \in LoopFailures(log))

\* the third attempt has failed and was followed by the 8 s backoff
C9_Witness ==
    /\ ret.op = "reset" /\ Len(log) >= 6
    /\ log[5] = Ev("POST /reset", 3, "fail")
    /\ log[6] = Ev("sleep", 8, "")

\* C10: reset() raises only when attempts 1, 2 and 3 have all failed and,
\* with server_cmd, the restart was run and either did not reach a healthy
\* server or was followed by a failed /reset.
C10_RaiseOnlyAfterEscalation ==
    (pc = "idle" /\ ret.op = "reset" /\ ret.kind = "raise") =>
        /\ \A k \in 1..3 : Has(log, Ev("POST /reset", k, "fail"))
        /\ \A i \in DOMAIN log : log[i].r = "ok" => log[i].e # "POST /reset"
        /\ server_cmd # "None" =>
              /\ Count(log, "_kill_port") = 1
              /\ Count(log, "Popen") = 1
              /\ (\E i \in DOMAIN log :
                      log[i].e = "GET /health" /\ log[i].r = "ok")
                     => Has(log, Ev("POST /reset", 4, "fail"))

\* reset() has raised after a healthy restart whose /reset failed too
C10_Witness ==
    /\ pc = "idle" /\ ret = Unresponsive /\ server_cmd # "None"
    /\ Has(log, Ev("POST /reset", 4, "fail"))

----------------------------------------------------------------------------
(* _restart_server: order of the steps, health gating, who restarts *)

\* the order of the restart's events in the log of a reset() call
RestartLogOrder ==
    ret.op = "reset" =>
        \A i \in DOMAIN log :
            /\ (log[i].e = "_kill_proc" /\ log[i].r = "") =>
                    /\ i + 1 \in DOMAIN log
                    /\ log[i + 1].e = "_kill_port"
            /\ log[i].e = "_kill_port" =>
                    /\ i + 1 \in DOMAIN log
                    /\ log[i + 1] = Ev("sleep", PORT_RELEASE_PAUSE, "")
                    /\ i + 2 \in DOMAIN log => log[i + 2].e = "Popen"
                    /\ Count(log, "_kill_port") = 1
            /\ log[i].e = "Popen" =>
                    /\ i > 2
                    /\ log[i - 2].e = "_kill_port"
                    /\ Count(log, "Popen") = 1
            /\ log[i].e \in {"poll", "GET /health"} =>
                    \E j \in 1..(i - 1) :
                        log[j].e = "Popen" /\ log[j].r = "ok"
            /\ log[i].e = "session.close" =>
                    /\ i > 1
                    /\ log[i - 1].e = "GET /health"
                    /\ log[i - 1].r = "ok"
                    /\ i + 1 \in DOMAIN log
                    /\ log[i + 1].e = "Session"
            /\ log[i].e = "Session" =>
                    /\ i > 1
                    /\ log[i - 1].e = "session.close"
            /\ (log[i].e = "GET /health" /\ log[i].r = "ok") =>
                    /\ i + 1 \in DOMAIN log
                    /\ log[i + 1].e = "session.close"

\* the kills of one restart, against the handle it found
RestartKillsStep ==
    (pc = "restart" /\ pc' = "spawn") =>
        /\ Has(log', Ev("_kill_port", 0, ""))
        /\ server_proc # 0 => Has(log', Ev("_kill_proc", server_proc, ""))
        /\ server_proc = 0 => Count(log', "_kill_proc") = 0

\* C11: a restart terminates the tracked handle if there is one, then kills
\* by port whether or not there was a handle, then pauses, then spawns, then
\* polls health; the session is closed and replaced only right after a
\* health probe that answered ok.
C11_RestartOrder == []RestartLogOrder /\ [][RestartKillsStep]_vars

C11_Witness ==
    /\ pc = "reset_post"
    /\ \E p \in Pids : Has(log, Ev("_kill_proc", p, ""))
    /\ Has(log, Ev("Session", 0, ""))

\* the restart of this reset() ended because the process exited or the
\* deadline elapsed
RestartGaveUp ==
    /\ ret.op = "reset"
    /\ log # <<>>
    /\ \/ log[Len(log)].e = "poll" /\ log[Len(log)].r = "exited"
       \/ log[Len(log)].e = "_kill_proc" /\ log[Len(log)].r = "deadline"

\* C12: reset() goes on to the post-restart /reset only after a health probe
\* that answered ok within the deadline while the spawned process was
\* running; when the process exits early or the deadline elapses, the handle
\* is null and reset() raises Unresponsive with no /reset after the restart.
C12_HealthGating ==
    /\ (ret.op = "reset" /\
            (pc = "reset_post" \/ \E i \in DOMAIN log :
                                     log[i].e = "POST /reset" /\ log[i].n > 3))
         => \E i \in DOMAIN log :
                /\ log[i] \in {Ev("GET /health", k, "ok") :
                                   k \in 1..MaxHealthPolls}
                /\ \A j \in 1..(i - 1) :
                       ~(log[j].e = "poll" /\ log[j].r = "exited")
                       /\ ~(log[j].e = "_kill_proc" /\ log[j].r = "deadline")
    /\ (pc = "reset_post" /\ ret.op = "reset") => server_proc \in alive
    /\ RestartGaveUp =>
            /\ pc = "idle"
            /\ ret = Unresponsive
            /\ server_proc = 0
            /\ \A i \in DOMAIN log :
                   log[i].e = "POST /reset" => log[i].n <= 3

C12_Witness ==
    /\ RestartGaveUp
    /\ log[Len(log)].r = "deadline"
    /\ Count(log, "GET /health") = MaxHealthPolls

KillOrSpawn == {"_kill_proc", "_kill_port", "Popen"}

\* no kill and no spawn in the log of a step; in the log of a reset only
\* after attempts 1, 2 and 3 have failed
KillsOnlyAfterLoop ==
    /\ ret.op = "step" => \A i \in DOMAIN log : log[i].e \notin KillOrSpawn
    /\ ret.op = "reset" =>
           \A i \in DOMAIN log :
               log[i].e \in KillOrSpawn =>
                   \A k \in 1..RESET_MAX_RETRIES :
                       \E j \in 1..(i - 1) :
                           log[j] = Ev("POST /reset", k, "fail")

\* a step() call leaves the process handle, the processes and the session
\* as they were
StepLeavesProcesses ==
    (ret'.op = "step" /\ <<log, ret>>' # <<log, ret>>) =>
        UNCHANGED <<server_proc, alive, session>>

NewEvents(e) ==
    {i \in DOMAIN log' :
        log'[i].e = e /\ (i \notin DOMAIN log \/ log[i] # log'[i])}

\* C14 as stated: in a state where the process handle is null, no step of
\* the client kills a process by handle or by port or spawns one.
C14_NullHandleNoKillNoSpawn ==
    [][server_proc = 0 =>
          /\ \A e \in KillOrSpawn : NewEvents(e) = {}
          /\ alive' \subseteq alive]_vars

\* without server_cmd nothing is ever killed or spawned
NoSpawnSpecNoProcesses ==
    server_cmd = "None" =>
        /\ server_proc = 0
        /\ alive = {}
        /\ \A i \in DOMAIN log : log[i].e \notin KillOrSpawn

\* with a null handle nothing is killed by handle, and a kill by port or a
\* spawn belongs to the restart of a reset() with server_cmd
NullHandleStep ==
    server_proc = 0 =>
        /\ NewEvents("_kill_proc") = {}
        /\ (NewEvents("_kill_port") # {} \/ NewEvents("Popen") # {}) =>
               /\ server_cmd # "None"
               /\ ret.op = "reset"
               /\ pc \in {"restart", "spawn"}

\* C14 (amended): what gates the restart is server_cmd, not the handle.
\* Without server_cmd no operation kills by handle or by port or spawns, and
\* the handle stays null; with server_cmd a null handle only skips the kill
\* by handle, and the restart of reset() still kills by port and spawns.
C14_RestartGatedBySpawnSpec ==
    []NoSpawnSpecNoProcesses /\ [][NullHandleStep]_vars

\* a restart that found no handle has killed by port and spawned
C14_Witness ==
    /\ pc = "health"
    /\ server_cmd # "None"
    /\ Count(log, "_kill_proc") = 0
    /\ Has(log, Ev("_kill_port", 0, ""))
    /\ \E p \in Pids : Has(log, Ev("Popen", p, "ok"))

\* C15: whatever fails inside the restart (kill, spawn, health probe,
\* unparsable health payload, crash during startup, deadline), a reset()
\* that ran the restart and raises, raises the typed ConnectionError.
C15_RestartFailuresAreTyped ==
    (pc = "idle" /\ ret.op = "reset" /\ ret.kind = "raise"
        /\ Has(log, Ev("_kill_port", 0, ""))) =>
        ret = Unresponsive

----------------------------------------------------------------------------
(* construction, sizes, action_masks *)

\* C16: __init__ asks for each space size once, with no retry, and a
\* construction that fails because a query was refused, timed out or was
\* answered by a malformed payload raises the client's ConnectionError.
C16_ConstructionFailuresAreTyped ==
    ret.op = "__init__" =>
        /\ Count(log, "GET /action-space") = 1
        /\ Count(log, "GET /observation-space") <= 1
        /\ ret.kind = "return" => Count(log, "GET /observation-space") = 1
        /\ ret.kind = "raise" => ret.exc = "ConnectionError"

\* the observation and mask of the last call and of the caches have the
\* sizes the server reported at construction
SizesAsConstructed ==
    /\ Len(last_obs) = ObsSize
    /\ Len(current_action_mask) = NumActions
    /\ (ret.op \in {"reset", "step"} /\ ret.kind = "return") =>
           /\ Len(ret.obs) = ObsSize
           /\ Len(ret.mask) = NumActions
    /\ ret.op = "action_masks" => Len(ret.mask) = NumActions

\* C17: a reset or step response whose observation or actionMask has another
\* length than the sizes reported at construction is neither returned to
\* the caller nor stored in the cached observation or mask.
C17_SpaceSpecEnforced == SizesAsConstructed

\* C18: as long as every response accepted so far was well-formed, whatever
\* transport failures came in between, the observation a reset or step
\* returns has length obs_size and the mask has length num_actions,
\* including a step that fails before any reset has succeeded.
C18_SizesUnderWellFormedResponses == wellFormed => SizesAsConstructed

\* a step failed before any reset or step succeeded
C18_Witness ==
    /\ ret.op = "step" /\ ret.kind = "return" /\ ret.timeout
    /\ ~seenGood
    /\ ret.obs = ZeroObs
    /\ ret.mask = AllLegal

\* C19: action_masks() returns the mask carried by the last reset or step
\* response that was accepted, all ones when that response carried none or
\* when none was accepted yet; failed steps and failed reset attempts leave
\* it as it was.
C19_MaskOfLastAcceptedResponse ==
    /\ current_action_mask = goodMask
    /\ ~seenGood => goodMask = Const(NumActions, 1)
    /\ ret.op = "action_masks" => ret.mask = goodMask

\* action_masks() after a response that restricted the actions
C19_Witness ==
    /\ ret.op = "action_masks"
    /\ seenGood
    /\ ret.mask = PassOnly

\* a step that ends in action_masks() having returned
PureReadStep ==
    /\ ret'.op = "action_masks" =>
           /\ ret'.mask = current_action_mask
           /\ ret.op = "action_masks" => ret'.mask = ret.mask
           /\ UNCHANGED <<current_action_mask, last_obs, server_cmd,
                          server_proc, session, pc, attempt, polls>>
    /\ vret'.op = "action_masks" =>
           /\ vret'.masks = vec_action_masks
           /\ vret.op = "action_masks" => vret'.masks = vret.masks
           /\ UNCHANGED <<vec_action_masks, vec_last_obs, pending_actions,
                          vpc, vattempt>>

\* C20: action_masks() is a pure read in both clients: it returns the
\* cached mask(s), a second call with no reset or step in between returns
\* the same, and no field of the client changes.
C20_ActionMasksPureRead == [][PureReadStep]_vars

\* the vectorized client has handed out masks that differ between seats
C20_Witness ==
    /\ client = "vec"
    /\ vret.op = "action_masks"
    /\ \E i, j \in Seats :
           vret.masks[i] = PassOnly /\ vret.masks[j] = AllLegal

----------------------------------------------------------------------------
(* SelfPlayVecEnv: broadcast, retry, masks, pending actions *)

\* C21: a reset() of the vectorized client that returns has made exactly
\* one accepted /reset exchange, its last, and every one of the N rows of
\* the returned observations and of the cached observations is that
\* response's observation, every row of the cached masks that response's
\* mask (all ones when it carried none).
C21_ResetBroadcasts ==
    (vpc = "idle" /\ vret.op = "reset" /\ vret.kind = "return") =>
        /\ vreset.kind = "ok"
        /\ vlog[Len(vlog)].e = "POST /reset"
        /\ vlog[Len(vlog)].r = "ok"
        /\ Cardinality({i \in DOMAIN vlog :
                           vlog[i].e = "POST /reset" /\ vlog[i].r = "ok"}) = 1
        /\ DOMAIN vret.obs = Seats
        /\ \A i \in Seats :
               /\ vret.obs[i] = vreset.obs
               /\ vec_last_obs[i] = vreset.obs
               /\ vec_action_masks[i] =
                      (IF vreset.mask.has THEN vreset.mask.m
                       ELSE Const(NumActions, 1))

\* a reset() that returned on its second attempt, with a restricting mask
C21_Witness ==
    /\ vpc = "idle" /\ vret.op = "reset" /\ vret.kind = "return"
    /\ Has(vlog, Ev("POST /reset", 1, "fail"))
    /\ vreset.mask.has
    /\ vreset.mask.m = PassOnly

\* C22: the vectorized reset() tries /reset at most three times, sleeping
\* 2, 4 and 8 seconds after the first, second and third failure, and raises
\* ConnectionError after the third without a fourth exchange; no operation
\* of the vectorized client kills or spawns a process.
C22_VecRetryWithoutSelfHeal ==
    /\ \A i \in DOMAIN vlog : vlog[i].e \notin KillOrSpawn
    /\ server_proc = 0 /\ alive = {}
    /\ Count(vlog, "POST /reset") <= 3
    /\ \A i \in DOMAIN vlog :
           vlog[i].e = "POST /reset" =>
               /\ vlog[i].n = 1 + Cardinality({j \in 1..(i - 1) :
                                                vlog[j].e = "POST /reset"})
               /\ vlog[i].r = "fail" =>
                      /\ i + 1 \in DOMAIN vlog
                      /\ vlog[i + 1] =
                             Ev("sleep", CASE vlog[i].n = 1 -> 2
                                           [] vlog[i].n = 2 -> 4
                                           [] OTHER -> 8, "")
    /\ (vpc = "idle" /\ vret.kind = "raise" /\ vret.exc = "ConnectionError") =>
           /\ \A k \in 1..3 : Has(vlog, Ev("POST /reset", k, "fail"))
           /\ Count(vlog, "POST /reset") = 3
           /\ vlog[Len(vlog)] = Ev("sleep", 8, "")

\* reset() called by the user has raised after three attempts
C22_Witness ==
    /\ vpc = "idle"
    /\ vret = VecRaise("reset", "ConnectionError")
    /\ Count(vlog, "POST /reset") = 3

PendingConsumed ==
    vret.op = "step_wait" =>
        /\ pending_actions = <<>>
        /\ vret.exc = "RuntimeError" => vlog = <<>>
        /\ vret.exc # "RuntimeError" => Count(vlog, "POST /step-multi") = 1

\* a step_wait that finds the buffer empty
EmptyBufferStep ==
    (vpc = "idle" /\ pending_actions = <<>> /\ vret'.op = "step_wait") =>
        /\ vret' = VecRaise("step_wait", "RuntimeError")
        /\ vlog' = <<>>
        /\ UNCHANGED <<vec_action_masks, vec_last_obs, pending_actions>>

\* C24: step_wait with an empty buffer raises and sends nothing; a
\* step_wait that sends its exchange leaves the buffer empty, whether it
\* returns the response's batch, goes through the failure branch, or raises.
C24_PendingBufferProtocol == []PendingConsumed /\ [][EmptyBufferStep]_vars

\* step_wait went through its failure branch and raised from the reset
C24_Witness ==
    /\ vpc = "idle"
    /\ vret = VecRaise("step_wait", "ConnectionError")
    /\ vlocal.timeout
    /\ pending_actions = <<>>

\* C25: a step_wait over N pending actions sends one exchange, the first
\* thing it does: one POST /step-multi with all N actions, never a second
\* one and never one per seat, whether the exchange is answered, fails or
\* is malformed.
C25_OneBatchedExchange ==
    (vret.op = "step_wait" /\ vret.exc # "RuntimeError") =>
        /\ {i \in DOMAIN vlog : vlog[i].e = "POST /step-multi"} = {1}
        /\ vlog[1].n = NumAgents
        /\ \A i \in DOMAIN vlog : vlog[i].e # "POST /step"

\* a failed exchange was followed by the retried reset only
C25_Witness ==
    /\ vpc = "idle" /\ vret.op = "step_wait" /\ vret.kind = "return"
    /\ vlocal.timeout
    /\ vlog[1] = Ev("POST /step-multi", NumAgents, "fail")
    /\ Count(vlog, "POST /reset") = 2

----------------------------------------------------------------------------
(* PokemonAutoChessEnv: one exchange per step, one process, close, healing *)

\* C26: a step(action) call makes one exchange, POST /step with its action,
\* and nothing else: after a transport failure no second /step and no
\* /reset is sent by that call.
C26_StepSendsOnce ==
    ret.op = "step" =>
        /\ Len(log) = 1
        /\ log[1].e = "POST /step"
        /\ log[1].n \in Actions
        /\ pc = "idle"

\* a step whose exchange was refused
C26_Witness ==
    /\ ret.op = "step" /\ ret.kind = "return" /\ ret.timeout
    /\ log[1].r = "refused"

\* C27: of the simulator processes this client has spawned at most one is
\* alive, and a live one is the process the handle refers to.
C27_AtMostOneOwnedProcess ==
    /\ Cardinality(alive) <= 1
    /\ \A p \in alive : server_proc = p

\* a reset() has replaced a tracked process by a new one and returned
C27_Witness ==
    /\ pc = "idle" /\ ret.op = "reset" /\ ret.kind = "return"
    /\ \E p \in Pids : Has(log, Ev("_kill_proc", p, ""))
    /\ alive = {server_proc}

\* once close() has returned the session is closed and no process this
\* client spawned is alive
ClosedLeavesNothing ==
    ret.op = "close" =>
        /\ pc = "idle"
        /\ session = "closed"
        /\ alive = {}

\* what a close() call kills
CloseStep ==
    ret'.op = "close" =>
        /\ server_proc \in alive =>
               /\ Has(log', Ev("_kill_proc", server_proc, ""))
               /\ server_proc' = 0
        /\ server_proc \notin alive =>
               /\ Count(log', "_kill_proc") = 0
               /\ server_proc' = server_proc
        /\ Count(log', "_kill_port") = 0
        /\ Count(log', "Popen") = 0

\* C28: after close() the session is closed and no process spawned by this
\* client runs: a tracked process that is alive is killed and the handle
\* cleared; with no live tracked process, so also on a client that never
\* spawned one, close() kills nothing.
C28_CloseKillsOwnedProcess == []ClosedLeavesNothing /\ [][CloseStep]_vars

\* close() has killed the process a restart had spawned
C28_Witness ==
    /\ ret.op = "close"
    /\ server_proc = 0
    /\ \E p \in Pids : Has(log, Ev("_kill_proc", p, ""))

\* a step whose exchange failed reports the episode as over
FailedStepIsDone ==
    (ret.op = "step" /\ ret.timeout) =>
        (ret.kind = "return" /\ ret.terminated)

\* reset() has ended, and if the replacement was healthy and answered the
\* /reset sent to it, it has returned that response's observation and left
\* the client idle with an open session and the caches of a fresh reset
HealedResetEnded ==
    /\ pc = "idle"
    /\ ret.op = "reset"
    /\ ret.kind \in {"return", "raise"}
    /\ Has(log, Ev("POST /reset", 4, "ok")) =>
           /\ ret.kind = "return"
           /\ Len(ret.obs) > 0
           /\ ret.obs = goodObs
           /\ last_obs = goodObs
           /\ session = "open"
           /\ attempt = RESET_MAX_RETRIES

\* C29: a step that fails returns done = true; a reset() with server_cmd
\* that has come to the restart always ends, and when the replacement
\* became healthy and answered /reset it ends by returning that
\* observation, not by raising, with the client ready for the next call.
C29_SelfHealingLiveness ==
    /\ []FailedStepIsDone
    /\ (pc = "restart" /\ server_cmd # "None") ~> HealedResetEnded

\* the reset() after a failed step has healed the client
C29_Witness ==
    /\ HealedResetEnded
    /\ Has(log, Ev("POST /reset", 4, "ok"))
    /\ server_proc \in alive

----------------------------------------------------------------------------
(* SelfPlayVecEnv: what the all-done step_wait returns *)

\* step_wait has returned after an all-done response and its fused reset
AllDoneReturned ==
    /\ vpc = "idle"
    /\ vret.op = "step_wait" /\ vret.kind = "return"
    /\ ~vlocal.timeout
    /\ AllDone(vlocal.dones)

\* C30 as stated: in the all-done case the returned batch carries the
\* state after the reset and neither the terminal rewards nor the terminal
\* observations: every row is the reset's observation and no reward is
\* reported.
C30_TerminalRewardAndObsDiscarded ==
    AllDoneReturned =>
        /\ \A i \in Seats : vret.obs[i] = vreset.obs
        /\ \A i \in Seats : vret.rewards[i] = 0

\* C30 (amended): in the all-done case only the observations are replaced,
\* by the reset's broadcast observation; the rewards, done flags and
\* per-seat masks returned are those of the terminal response.
C30_OnlyObservationsReplaced ==
    AllDoneReturned =>
        /\ \A i \in Seats : vret.obs[i] = vreset.obs
        /\ vret.rewards = vlocal.rewards
        /\ vret.dones = vlocal.dones
        /\ vret.infos = vlocal.infos
        /\ vret.masks = vlocal.masks

\* a terminal batch with a reward and with observations other than the
\* reset's has been returned
C30_Witness ==
    /\ AllDoneReturned
    /\ \A i \in Seats : vret.rewards[i] = 1
    /\ vlocal.obs # vret.obs

----------------------------------------------------------------------------
(* launch_servers *)

\* the ports of the servers launch_servers has spawned
Spawned == {servers[k] : k \in DOMAIN servers}

\* the events the step appends to the launcher's log
NewLaunchEvents == {llog'[i] : i \in (DOMAIN llog') \ (DOMAIN llog)}

\* the step on which launch_servers raises for a crashed server or for the
\* health deadline
LaunchFailureRaised ==
    /\ lpc = "wait"
    /\ lpc' = "raised"
    /\ lret'.exc \in {"RuntimeError", "TimeoutError"}

\* C31: when launch_servers raises RuntimeError (a server exited during
\* startup) or TimeoutError (a server was not healthy by the deadline),
\* every spawned server that was still running has been killed with
\* _kill_proc_tree before the raise, the servers that had exited are not
\* killed again, and no spawned process is left running.
C31_FailureKillsEverySpawned ==
    [][LaunchFailureRaised =>
          /\ running' \cap Spawned = {}
          /\ \A p \in Spawned :
                p \in running <=> Ev("_kill_proc_tree", p, "") \in NewLaunchEvents
      ]_vars

\* launch_servers raised TimeoutError for its first server and had killed
\* both servers before
C31_Witness ==
    /\ lpc = "raised"
    /\ lret.exc = "TimeoutError"
    /\ waiting = 1
    /\ Has(llog, Ev("_kill_proc_tree", PortOf(0), ""))
    /\ Has(llog, Ev("_kill_proc_tree", PortOf(1), ""))
    /\ running = {}

\* the positions in the launcher's log where cleanup() was entered
CleanupCalls == {i \in DOMAIN llog : llog[i].e = "cleanup"}

\* the positions where a process tree was killed
TreeKills == {i \in DOMAIN llog : llog[i].e = "_kill_proc_tree"}

\* C32: once launch_servers has returned, it has spawned num_envs servers
\* on the ports base_port .. base_port+num_envs-1, one each, and every one
\* of them has answered GET /health with status ok; once the returned
\* cleanup has run none of them is running, every running one was killed
\* by the first run, and a later run of cleanup kills nothing.
C32_HealthyThenCleanedUp ==
    lpc = "returned" =>
        /\ Len(servers) = NumEnvs
        /\ \A k \in DOMAIN servers : servers[k] = BASE_PORT + (k - 1)
        /\ \A k \in DOMAIN servers :
              Has(llog, Ev("GET /health", servers[k], "ok"))
        /\ CleanupCalls # {} => running \cap Spawned = {}
        /\ \A i, j \in CleanupCalls :
              i < j => \A k \in TreeKills : k < j

\* launch_servers returned, cleanup ran twice, and the first run killed
\* both servers
C32_Witness ==
    /\ lpc = "returned"
    /\ Cardinality(CleanupCalls) = 2
    /\ Cardinality(TreeKills) = NumEnvs
    /\ running = {}

----------------------------------------------------------------------------
(* reset() that raises *)

\* a step of a single-agent reset() call, its entry included, that does not
\* return a result
ResetStepWithoutResult ==
    /\ pc \notin {"new", "idle"} \/ (pc = "idle" /\ pc' = "reset_try")
    /\ ret'.kind # "return"

\* a step of a vectorized reset(), called directly or from step_wait, its
\* entry by the caller included, that does not return a result
VecResetStepWithoutResult ==
    /\ \/ vpc \in {"reset_try", "reset_exhausted"}
       \/ (vpc = "idle" /\ vpc' = "reset_try" /\ vcaller' = "reset")
    /\ vret'.kind # "return"

\* C33: no step of a reset() call other than the one that returns a result
\* changes the cached mask or the cached last observation (so their sizes
\* stay too), through the retry loop, the restart cycle and the raise; a
\* reset() that raises therefore leaves them as they were when it was
\* called, in both clients.
C33_RaisingResetKeepsCaches ==
    [][/\ ResetStepWithoutResult => UNCHANGED <<current_action_mask, last_obs>>
       /\ VecResetStepWithoutResult => UNCHANGED vecCache
      ]_vars

\* reset() raised after a restart that killed the server and spawned a
\* healthy replacement, and the caches still hold the last accepted
\* response, which restricted the mask
C33_Witness ==
    /\ client = "env"
    /\ ret = Unresponsive
    /\ Count(log, "POST /reset") = 4
    /\ Has(log, Ev("Session", 0, ""))
    /\ seenGood
    /\ current_action_mask = PassOnly
    /\ last_obs = goodObs

----------------------------------------------------------------------------
(* what step_wait leaves cached *)

\* step_wait has returned a batch
StepWaitReturned == vret.op = "step_wait" /\ vret.kind = "return"

\* C35: after step_wait returns, the cached last observations are the
\* returned observations; without a fused reset the cached masks are the
\* masks of the /step-multi response, which are also the returned ones;
\* with a fused reset (all done, or the exchange failed) the returned
\* observations and the cached masks are the broadcast of the /reset
\* response, while the returned masks are those from before the reset.
C35_CacheMatchesReturnedObs ==
    StepWaitReturned =>
        /\ vec_last_obs = vret.obs
        /\ IF vreset.kind = "none"
           THEN /\ vec_action_masks = [i \in Seats |-> MaskOf(vlocal.infos[i])]
                /\ vret.masks = vec_action_masks
                /\ vret.obs = vlocal.obs
           ELSE /\ vcaller \in {"step_done", "step_fail"}
                /\ vret.obs = Tile(vreset.obs)
                /\ vec_action_masks = Tile(MaskOf(vreset.mask))
                /\ vret.masks = vlocal.masks

\* step_wait returned after a failed exchange and a fused reset, and the
\* masks in its infos differ from the masks action_masks() now gives
C35_Witness ==
    /\ StepWaitReturned
    /\ vcaller = "step_fail"
    /\ vret.timeout
    /\ vreset.kind = "ok"
    /\ vret.masks # vec_action_masks
    /\ vec_action_masks = Tile(PassOnly)

----------------------------------------------------------------------------
(* a failed single-agent step *)

\* the step on which step() returns after its /step exchange failed (a
\* step that leaves both the result and the log alone is not a call)
FailedStep ==
    /\ pc = "idle"
    /\ <<ret, log>>' # <<ret, log>>
    /\ ret'.op = "step"
    /\ ret'.timeout
    /\ Len(log') = 1
    /\ log'[1].e = "POST /step"
    /\ log'[1].r \in TransportFailures

\* C36: a failed single-agent step leaves the cached mask, the cached last
\* observation, the process handle, the process and the session as they
\* were and returns the cached observation and mask; a failed step that
\* follows a failed step returns the same observation and mask again.
C36_FailedStepChangesNothing ==
    [][FailedStep =>
          /\ UNCHANGED <<current_action_mask, last_obs, server_proc, alive,
                         session>>
          /\ ret'.obs = last_obs
          /\ ret'.mask = current_action_mask
          /\ (ret.op = "step" /\ ret.timeout) =>
                (ret'.obs = ret.obs /\ ret'.mask = ret.mask)
      ]_vars

\* a step was refused on a client that holds the handle of a restarted
\* server, and it returned the observation and the restricted mask of the
\* last accepted response
C36_Witness ==
    /\ pc = "idle" /\ ret.op = "step" /\ ret.timeout
    /\ log[1].r = "refused"
    /\ server_proc # 0
    /\ seenGood
    /\ ret.obs = goodObs /\ goodObs # ZeroObs
    /\ ret.mask = PassOnly

----------------------------------------------------------------------------
(* reset() terminates *)

\* what a single-agent reset() call has spent so far stays within its
\* budget: 3 /reset exchanges without server_cmd and 4 with it, one spawn,
\* and the health polls of one bounded loop
ResetWithinBudget ==
    /\ Count(log, "POST /reset") <=
           (IF server_cmd = "None" THEN RESET_MAX_RETRIES
                                   ELSE RESET_MAX_RETRIES + 1)
    /\ Count(log, "Popen") <= 1
    /\ Count(log, "GET /health") <= MaxHealthPolls
    /\ Count(log, "GET /health") > 0 => Count(log, "Popen") = 1

\* the same for the vectorized reset(), fused into step_wait or not
VecResetWithinBudget == Count(vlog, "POST /reset") <= VEC_RESET_MAX_RETRIES

\* C37: every reset() call that has been entered ends, by returning or by
\* raising, in both clients, and until then it has sent at most 3 /reset
\* exchanges (4 for the single-agent client with server_cmd) and run at
\* most one health-poll loop, which is bounded.
C37_ResetTerminates ==
    /\ [](ResetWithinBudget /\ VecResetWithinBudget)
    /\ (pc \notin {"new", "idle"}) ~> (pc = "idle" /\ ret.op = "reset"
                                          /\ ret.kind \in {"return", "raise"})
    /\ (vpc # "idle") ~> (vpc = "idle" /\ vret.kind \in {"return", "raise"})

\* a single-agent reset() ended by raising after four /reset exchanges and
\* a health loop that ran to its last poll
C37_Witness ==
    /\ client = "env"
    /\ pc = "idle" /\ ret.op = "reset" /\ ret.kind = "raise"
    /\ Count(log, "POST /reset") = RESET_MAX_RETRIES + 1
    /\ Count(log, "GET /health") = MaxHealthPolls

----------------------------------------------------------------------------
(* truncated *)

\* step() has returned a transition
StepReturned == pc = "idle" /\ ret.op = "step" /\ ret.kind = "return"

\* C38: a transition returned by the single-agent step has truncated = true
\* exactly when its /step exchange raised, and then terminated and timeout
\* are true as well; a transition built from a response has truncated =
\* false and no timeout, and terminated is the response's done; and a
\* step() call, whatever it returns, has sent one /step and no /reset.
C38_TruncatedMarksSynthetic ==
    /\ StepReturned =>
          /\ ret.truncated <=> log[1].r \in TransportFailures
          /\ ret.truncated => (ret.terminated /\ ret.timeout)
          /\ ~ret.truncated => (log[1].r = "ok" /\ ~ret.timeout)
    /\ ret.op = "step" =>
          /\ pc = "idle"
          /\ Len(log) = 1
          /\ log[1].e = "POST /step"
          /\ Count(log, "POST /reset") = 0

\* step() returned a real terminal transition: done = true in the response,
\* truncated = false, and nothing but the /step was sent
C38_Witness ==
    /\ StepReturned
    /\ log[1].r = "ok"
    /\ ret.terminated
    /\ ~ret.truncated
    /\ ~ret.timeout

============================================================================
